---- MODULE Spec2Model ----
(***************************************************************************)
(* Annotation session of dive: the track store (camera maps, interval      *)
(* tree, ordered view) and the mode manager of                             *)
(* client/dive-common/use/useModeManager.ts.                               *)
(***************************************************************************)
EXTENDS Integers, Sequences, FiniteSets, Bags, TLC

\* ---------------------------------------------------------------- bounds
MaxTrackId == 2
MaxTracks == 2
MaxFrame == 1
MaxContributions == 2

\* ------------------------------------------------------------- constants
Null == -1
Cameras == {"singleCam", "left"}
NoCamera == ""
CameraNames == Cameras \cup {"ghost"}
Frames == 0..MaxFrame
TrackIds == 0..(MaxTrackId - 1)
\* An optional argument or field that was left out.
Undefined == "undefined"
\* annotationModes.editing, and the geometry types a feature can hold.
EditTypes == {"rectangle", "Polygon", "LineString"}
ShapeTypes == {"Polygon", "LineString"}
\* The keys of shapes: the default key and one that a recipe owns.
Keys == {"", "head"}
\* recipes, in the order they were handed to the manager.
RecipeNames == <<"polygon", "line">>
DefaultType == "unknown"
TrackTypes == {DefaultType}
AttrValues == {"bar"}

NoError == [kind |-> "none", id |-> Null, cam |-> NoCamera]
NotFound(id, cam) == [kind |-> "NotFound", id |-> id, cam |-> cam]
DuplicateId(id, cam) == [kind |-> "DuplicateId", id |-> id, cam |-> cam]

VARIABLES
    camMap,          \* camera name -> (track id -> track)
    trackIds,        \* the ids of the store, in insertion order
    intervalTree,    \* bag of <<begin, end, value>> entries
    nextTrackId,     \* the next id addTrack hands out
    sortedTracks,    \* the ordered view, as last evaluated
    didCall,         \* markChangesPending was invoked
    called,          \* the ordered view was re-evaluated
    selectedTrackId, \* the selection, or Null
    selectedCamera,  \* the camera the user works on
    editingTrack,    \* whether the selection is being edited
    frame,           \* aggregateController.frame
    creating,        \* the manager's creating flag
    mergeList,       \* the merge candidates, in order
    linkingState,    \* linking is active
    linkingTrack,    \* the link target, or Null
    linkingCamera,   \* the camera linked to, or ""
    trackSettings,   \* clientSettings.trackSettings
    pendingRemove,   \* the removal waiting for the delete confirmation
    annotationModes, \* annotationModes: the type being edited
    selectedKey,     \* the key of the selected shape
    recipes,         \* recipe name -> its active flag
    prevented,       \* the last operation called preventInterrupt
    asked,           \* what the recipes answered to the last geometry update
    written,         \* the feature the last updateRectBounds wrote
    promptShown,     \* title of the prompt the last operation opened
    error,           \* what the last operation threw
    last,            \* the last operation and what it returned
    returned         \* the ids addTrack returned without overrideId

storeVars == <<camMap, trackIds, intervalTree, nextTrackId, sortedTracks,
               didCall, called>>
modeVars == <<selectedTrackId, selectedCamera, editingTrack, frame, creating,
              mergeList, linkingState, linkingTrack, linkingCamera,
              trackSettings, pendingRemove, annotationModes, selectedKey,
              recipes, prevented, promptShown>>
obsVars == <<error, last, returned, asked, written>>

\* No geometry update was the last operation.
NoCall ==
    [eventType |-> Undefined, preventInterrupt |-> FALSE, sameKey |-> FALSE,
     newType |-> {}, newSelectedKey |-> {}, changed |-> FALSE,
     unfinished |-> FALSE]

\* No rectangle was written by the last operation.
NoFeature ==
    [frame |-> Null, keyframe |-> FALSE, interpolate |-> FALSE,
     canInterpolate |-> FALSE]
vars == <<storeVars, modeVars, obsVars>>

\* The state as one record, so that a handler is a function of the state.
State ==
    [camMap |-> camMap, trackIds |-> trackIds, intervalTree |-> intervalTree,
     nextTrackId |-> nextTrackId, sortedTracks |-> sortedTracks,
     didCall |-> didCall, called |-> called,
     selectedTrackId |-> selectedTrackId, selectedCamera |-> selectedCamera,
     editingTrack |-> editingTrack, frame |-> frame, creating |-> creating,
     mergeList |-> mergeList, linkingState |-> linkingState,
     linkingTrack |-> linkingTrack, linkingCamera |-> linkingCamera,
     trackSettings |-> trackSettings, pendingRemove |-> pendingRemove,
     annotationModes |-> annotationModes, selectedKey |-> selectedKey,
     recipes |-> recipes, prevented |-> FALSE, asked |-> NoCall,
     written |-> NoFeature,
     promptShown |-> "", error |-> NoError, ret |-> Null]

Becomes(S) ==
    /\ camMap' = S.camMap
    /\ trackIds' = S.trackIds
    /\ intervalTree' = S.intervalTree
    /\ nextTrackId' = S.nextTrackId
    /\ sortedTracks' = S.sortedTracks
    /\ didCall' = S.didCall
    /\ called' = S.called
    /\ selectedTrackId' = S.selectedTrackId
    /\ selectedCamera' = S.selectedCamera
    /\ editingTrack' = S.editingTrack
    /\ frame' = S.frame
    /\ creating' = S.creating
    /\ mergeList' = S.mergeList
    /\ linkingState' = S.linkingState
    /\ linkingTrack' = S.linkingTrack
    /\ linkingCamera' = S.linkingCamera
    /\ trackSettings' = S.trackSettings
    /\ pendingRemove' = S.pendingRemove
    /\ annotationModes' = S.annotationModes
    /\ selectedKey' = S.selectedKey
    /\ recipes' = S.recipes
    /\ prevented' = S.prevented
    /\ asked' = S.asked
    /\ written' = S.written
    /\ promptShown' = S.promptShown
    /\ error' = S.error

\* ------------------------------------------------------------ the track
Min(S) == CHOOSE x \in S : \A y \in S : x <= y
Max(S) == CHOOSE x \in S : \A y \in S : x >= y

\* features: the frames with a keyframe; bounds: those whose feature has
\* bounds; shapes: the <<frame, key, type>> of the geometry they hold.
NewTrack(id, f, type) ==
    [trackId |-> id, begin |-> f, end |-> f, features |-> {},
     bounds |-> {}, shapes |-> {}, type |-> type]

\* Track.setFeature: the frame gets a keyframe and the range follows the
\* frames that hold a feature.
TrackSetFeature(t, f) ==
    LET fs == t.features \cup {f}
    IN  [t EXCEPT !.features = fs, !.begin = Min(fs), !.end = Max(fs),
                  !.bounds = @ \cup {f}]

\* Track.setFeature(feature, geometry): a keyframe with or without bounds
\* and the shapes given, each under its key and type.
TrackSetGeometry(t, f, hasBounds, shapes) ==
    LET fs == t.features \cup {f}
    IN  [t EXCEPT !.features = fs, !.begin = Min(fs), !.end = Max(fs),
                  !.bounds = IF hasBounds THEN @ \cup {f} ELSE @ \ {f},
                  !.shapes = @ \cup {<<f, p[1], p[2]>> : p \in shapes}]

TrackSetType(t, type) == [t EXCEPT !.type = type]
\* The attribute values are not part of the model: no operation reads them.
TrackSetAttribute(t, v) == t

\* Track.getFeature(frame): <<real, lower, upper>>, as presence flags.
getFeature(t, f) ==
    IF f \in t.features
    THEN <<TRUE, FALSE, FALSE>>
    ELSE <<FALSE, \E g \in t.features : g < f, \E g \in t.features : g > f>>

\* ------------------------------------------------------- camera lookups
HasTrack(cm, id, cam) == cam \in DOMAIN cm /\ id \in DOMAIN cm[cam]

getTrackAll(cm, id) == {c \in DOMAIN cm : id \in DOMAIN cm[c]}

AllIds(cm) == UNION {DOMAIN cm[c] : c \in DOMAIN cm}

TrackCount(cm) ==
    Cardinality({p \in (DOMAIN cm) \X TrackIds : p[2] \in DOMAIN cm[p[1]]})

\* A lookup that finds the id on whichever camera holds it.
getTrackError_AnyCamera(cm, id, cam) ==
    IF getTrackAll(cm, id) # {} THEN NoError ELSE NotFound(id, cam)

\* getTrack throws 'TrackId <id> not found in trackMap with cameraName <cam>'.
getTrackError(cm, id, cam) ==
    IF HasTrack(cm, id, cam) THEN NoError ELSE NotFound(id, cam)

\* getTracksMerged: the range of an id over every camera that holds it.
MergedBegin(cm, id) == Min({cm[c][id].begin : c \in getTrackAll(cm, id)})

\* ---------------------------------------------------- the interval tree
TreeValue(id) == ToString(id)
TreeEntry(t) == <<t.begin, t.end, TreeValue(t.trackId)>>
TreeInsert(tree, t) == tree (+) SetToBag({TreeEntry(t)})
TreeRemove(tree, t) == tree (-) SetToBag({TreeEntry(t)})
\* A search that misses the entries that only touch an end of [a, b].
TreeSearch_Strict(tree, a, b) ==
    {e[3] : e \in {x \in BagToSet(tree) : x[1] < b /\ a < x[2]}}

\* intervalTree.search([a, b]): the values of the entries that meet [a, b].
TreeSearch(tree, a, b) ==
    {e[3] : e \in {x \in BagToSet(tree) : x[1] <= b /\ a <= x[2]}}

\* ---------------------------------------------------- the ordered view
RECURSIVE InsertByBegin(_, _, _)
InsertByBegin(cm, id, seq) ==
    IF seq = <<>> THEN <<id>>
    ELSE IF MergedBegin(cm, Head(seq)) <= MergedBegin(cm, id)
         THEN <<Head(seq)>> \o InsertByBegin(cm, id, Tail(seq))
         ELSE <<id>> \o seq

RECURSIVE SortByBegin(_, _)
SortByBegin(cm, ids) ==
    IF ids = <<>> THEN <<>>
    ELSE InsertByBegin(cm, ids[Len(ids)],
                       SortByBegin(cm, SubSeq(ids, 1, Len(ids) - 1)))

\* A view that keeps the order of insertion.
EvalSortedTracks_Unsorted(cm, ids) == ids

\* sortedTracks: the ids of the store ordered by the frame each begins at.
EvalSortedTracks(cm, ids) == SortByBegin(cm, ids)

\* The computed view is evaluated again; the watcher of the store's test
\* sets its flag when the view it reads is not empty.
Reevaluate(S) ==
    LET view == EvalSortedTracks(S.camMap, S.trackIds)
    IN  [S EXCEPT !.sortedTracks = view,
                  !.called = IF Len(view) > 0 THEN TRUE ELSE @]

\* ------------------------------------------------------ the track store
markChangesPending(S) == [S EXCEPT !.didCall = TRUE]

\* An id taken from the ids now in the store: one past the largest.
getNewTrackId_Reuse(S) ==
    IF S.trackIds = <<>> THEN 0
    ELSE Max({S.trackIds[i] : i \in 1..Len(S.trackIds)}) + 1

getNewTrackId(S) == S.nextTrackId

IndexOf(seq, x) ==
    IF \E i \in 1..Len(seq) : seq[i] = x
    THEN Min({i \in 1..Len(seq) : seq[i] = x})
    ELSE 0

\* trackIds.splice(indexOf(afterId) + 1, 0, id), or push without afterId.
InsertId(ids, afterId, id) ==
    IF afterId = Null THEN Append(ids, id)
    ELSE LET k == IndexOf(ids, afterId)
         IN  SubSeq(ids, 1, k) \o <<id>> \o SubSeq(ids, k + 1, Len(ids))

RemoveId(ids, id) == SelectSeq(ids, LAMBDA x : x # id)

insertTrack(S, t, afterId, cam) ==
    LET cm == [S.camMap EXCEPT ![cam] = (t.trackId :> t) @@ @]
        ids == IF IndexOf(S.trackIds, t.trackId) # 0 THEN S.trackIds
               ELSE InsertId(S.trackIds, afterId, t.trackId)
    IN  [S EXCEPT !.camMap = cm, !.trackIds = ids,
                  !.intervalTree = TreeInsert(@, t)]

addTrack(S, f, type, afterId, cam, overrideId) ==
    LET id == IF overrideId # Null THEN overrideId ELSE getNewTrackId(S)
    IN  IF HasTrack(S.camMap, id, cam)
        THEN [S EXCEPT !.error = DuplicateId(id, cam)]
        ELSE LET S1 == insertTrack(S, NewTrack(id, f, type), afterId, cam)
                 S2 == [S1 EXCEPT !.nextTrackId =
                                     IF overrideId = Null THEN @ + 1 ELSE @,
                                  !.ret = id]
             IN  Reevaluate(markChangesPending(S2))

\* removeTrack(trackId, disableNotifications, cameraName): the empty camera
\* name stands for every camera that holds the id.
RECURSIVE RemoveFrom(_, _, _)
RemoveFrom(S, id, cams) ==
    IF cams = {} THEN S
    ELSE LET c == CHOOSE x \in cams : TRUE
             t == S.camMap[c][id]
             cm == [S.camMap EXCEPT
                       ![c] = [i \in DOMAIN @ \ {id} |-> @[i]]]
         IN  RemoveFrom([S EXCEPT !.camMap = cm,
                                  !.intervalTree = TreeRemove(@, t)],
                        id, cams \ {c})

removeTrack(S, id, disableNotifications, cam) ==
    LET cams == IF cam = NoCamera THEN getTrackAll(S.camMap, id)
                ELSE {c \in {cam} : HasTrack(S.camMap, id, c)}
    IN  IF cams = {} THEN [S EXCEPT !.error = NotFound(id, cam)]
        ELSE LET S1 == RemoveFrom(S, id, cams)
                 S2 == [S1 EXCEPT !.trackIds =
                            IF getTrackAll(S1.camMap, id) = {}
                            THEN RemoveId(@, id) ELSE @]
                 S3 == IF disableNotifications THEN S2
                       ELSE markChangesPending(S2)
             IN  Reevaluate(S3)

\* A setter that writes the track and notifies nobody.
onChange_Silent(S, cam, old, new) ==
    [S EXCEPT !.camMap = [S.camMap EXCEPT ![cam][old.trackId] = new]]

\* A track's setter notifies the store: the entry of the interval tree
\* follows the range and the ordered view is evaluated again.
onChange(S, cam, old, new) ==
    LET cm == [S.camMap EXCEPT ![cam][old.trackId] = new]
        tree == IF <<old.begin, old.end>> = <<new.begin, new.end>>
                THEN S.intervalTree
                ELSE TreeInsert(TreeRemove(S.intervalTree, old), new)
    IN  Reevaluate(markChangesPending(
            [S EXCEPT !.camMap = cm, !.intervalTree = tree]))

setFeature(S, id, cam, f) ==
    onChange(S, cam, S.camMap[cam][id], TrackSetFeature(S.camMap[cam][id], f))

setType(S, id, cam, type) ==
    onChange(S, cam, S.camMap[cam][id], TrackSetType(S.camMap[cam][id], type))

setAttribute(S, id, cam, v) ==
    onChange(S, cam, S.camMap[cam][id],
             TrackSetAttribute(S.camMap[cam][id], v))

\* ---------------------------------------------- the selection controls
\* selectTrack(trackId, edit), as handed to the manager.
selectTrack(S, trackId, edit) ==
    [S EXCEPT !.selectedTrackId = trackId,
              !.editingTrack = (trackId # Null /\ edit)]

\* selectNextTrack(delta): the neighbour of the selection in the ordered
\* view, the first track without a selection, Null at either end.
selectNextTrack(S, delta) ==
    LET v == S.sortedTracks
        k == IndexOf(v, S.selectedTrackId) + delta
    IN  IF Len(v) = 0 THEN Null
        ELSE IF S.selectedTrackId = Null THEN v[1]
        ELSE IF k \in 1..Len(v) THEN v[k] ELSE Null

\* ----------------------------------------------------- the mode manager
mergeInProgress(S) == Len(S.mergeList) > 0

\* A list that takes the id again when it is already there.
AddToList_Appends(list, id) == Append(list, id)

\* Array.from(new Set(list).add(id))
AddToList(list, id) ==
    IF IndexOf(list, id) # 0 THEN list ELSE Append(list, id)

\* A link target taken without looking at the other cameras.
_setLinkingTrack_Unchecked(S, trackId) ==
    [S EXCEPT !.linkingTrack = trackId]

_setLinkingTrack(S, trackId) ==
    IF Cardinality(getTrackAll(S.camMap, trackId)) > 1
    THEN [S EXCEPT !.promptShown = "Linking Error"]
    ELSE [S EXCEPT !.linkingTrack = trackId]

\* A selection that returns once the id is staged for the merge.
handleSelectTrack_MergeReturns(S, trackId, edit) ==
    LET S1 == IF ~(S.creating /\ edit /\ trackId = S.selectedTrackId)
              THEN [S EXCEPT !.creating = FALSE] ELSE S
    IN  IF trackId # Null /\ mergeInProgress(S1)
        THEN [S1 EXCEPT !.mergeList = AddToList(@, trackId)]
        ELSE IF S1.linkingState
        THEN IF trackId # Null THEN _setLinkingTrack(S1, trackId) ELSE S1
        ELSE selectTrack(S1, trackId, edit /\ ~mergeInProgress(S1))

\* A selection that resolves the link target and goes on to select.
handleSelectTrack_LinkingGoesOn(S, trackId, edit) ==
    LET S1 == IF ~(S.creating /\ edit /\ trackId = S.selectedTrackId)
              THEN [S EXCEPT !.creating = FALSE] ELSE S
        S2 == IF trackId # Null /\ mergeInProgress(S1)
              THEN [S1 EXCEPT !.mergeList = AddToList(@, trackId)]
              ELSE IF S1.linkingState /\ trackId # Null
              THEN _setLinkingTrack(S1, trackId)
              ELSE S1
    IN  selectTrack(S2, trackId, edit /\ ~mergeInProgress(S2))

handleSelectTrack(S, trackId, edit) ==
    LET S1 == IF ~(S.creating /\ edit /\ trackId = S.selectedTrackId)
              THEN [S EXCEPT !.creating = FALSE] ELSE S
    IN  IF trackId # Null /\ mergeInProgress(S1)
        THEN LET S2 == [S1 EXCEPT !.mergeList = AddToList(@, trackId)]
             IN  selectTrack(S2, trackId, edit /\ ~mergeInProgress(S2))
        ELSE IF S1.linkingState
        THEN IF trackId # Null THEN _setLinkingTrack(S1, trackId) ELSE S1
        ELSE selectTrack(S1, trackId, edit /\ ~mergeInProgress(S1))

\* A test that takes every single-frame track for an empty one.
IsEmptyTrack_SingleFrame(t) == t.begin = t.end

\* The selected track of the current camera is empty: one frame, and
\* getFeature finds nothing at it.
IsEmptyTrack(t) ==
    /\ t.begin = t.end
    /\ \A i \in 1..3 : ~getFeature(t, t.begin)[i]

handleEscapeMode(S) ==
    LET sel == S.selectedTrackId
        cam == S.selectedCamera
        S1 == IF /\ sel # Null
                 /\ HasTrack(S.camMap, sel, cam)
                 /\ IsEmptyTrack(S.camMap[cam][sel])
              THEN removeTrack(S, sel, TRUE, cam)
              ELSE S
        S2 == [S1 EXCEPT !.linkingState = FALSE, !.linkingCamera = NoCamera,
                         !.linkingTrack = Null, !.mergeList = <<>>]
    IN  handleSelectTrack(S2, Null, FALSE)

\* getAnyTrack: the track of the first camera that holds the id.
AnyCamera(cm, id) == CHOOSE c \in getTrackAll(cm, id) : TRUE

\* An added track that always gets the type of the settings.
handleAddTrackOrDetection_DefaultType(S, overrideTrackId) ==
    IF overrideTrackId # Null /\ getTrackAll(S.camMap, overrideTrackId) = {}
    THEN [S EXCEPT !.error = NotFound(overrideTrackId, NoCamera)]
    ELSE LET afterId == IF S.selectedTrackId \in {Null, 0} THEN Null
                        ELSE S.selectedTrackId
             S1 == addTrack(S, S.frame, DefaultType, afterId,
                            S.selectedCamera, overrideTrackId)
         IN  IF S1.error # NoError THEN S1
             ELSE [selectTrack(S1, S1.ret, TRUE) EXCEPT !.creating = TRUE]

handleAddTrackOrDetection(S, overrideTrackId) ==
    IF overrideTrackId # Null /\ getTrackAll(S.camMap, overrideTrackId) = {}
    THEN [S EXCEPT !.error = NotFound(overrideTrackId, NoCamera)]
    ELSE LET trackType ==
                 IF overrideTrackId # Null
                 THEN S.camMap[AnyCamera(S.camMap, overrideTrackId)]
                              [overrideTrackId].type
                 ELSE DefaultType
             \* selectedTrackId.value || undefined: the id 0 is no afterId
             afterId == IF S.selectedTrackId \in {Null, 0} THEN Null
                        ELSE S.selectedTrackId
             S1 == addTrack(S, S.frame, trackType, afterId,
                            S.selectedCamera, overrideTrackId)
         IN  IF S1.error # NoError THEN S1
             ELSE [selectTrack(S1, S1.ret, TRUE) EXCEPT !.creating = TRUE]

nextFrame(S) == [S EXCEPT !.frame = @ + 1]

\* The logic run without a look at the creating flag.
newTrackSettingsAfterLogic_IgnoresCreating(S) ==
    IF S.trackSettings.mode = "Track" /\ S.trackSettings.autoAdvanceFrame
    THEN [nextFrame(S) EXCEPT !.creating = TRUE]
    ELSE IF S.trackSettings.mode = "Detection" /\ S.trackSettings.continuous
    THEN LET S1 == handleAddTrackOrDetection(S, Null)
         IN  IF S1.error # NoError THEN S1
             ELSE [S1 EXCEPT !.creating = TRUE]
    ELSE [S EXCEPT !.creating = FALSE]

newTrackSettingsAfterLogic(S) ==
    IF S.creating /\ S.trackSettings.mode = "Track"
                  /\ S.trackSettings.autoAdvanceFrame
    THEN [nextFrame(S) EXCEPT !.creating = TRUE]
    ELSE IF S.creating /\ S.trackSettings.mode = "Detection"
                       /\ S.trackSettings.continuous
    THEN LET S1 == handleAddTrackOrDetection(S, Null)
         IN  IF S1.error # NoError THEN S1
             ELSE [S1 EXCEPT !.creating = TRUE]
    ELSE [S EXCEPT !.creating = FALSE]

\* An interpolation taken from the track, whatever the mode.
_shouldInterpolate_IgnoresMode(S, canInterpolate) ==
    IF S.creating THEN S.trackSettings.interpolate ELSE canInterpolate

\* Whether a new feature enables interpolation: never for a detection, by
\* the settings for a new track, by the track's answer otherwise.
_shouldInterpolate(S, canInterpolate) ==
    LET interpolateTrack ==
            IF S.creating THEN S.trackSettings.interpolate
            ELSE canInterpolate
    IN  IF S.trackSettings.mode = "Detection" THEN FALSE
        ELSE interpolateTrack

\* canInterpolate is what track.canInterpolate(frameNum) answers; the
\* feature handed to setFeature is kept in written.
handleUpdateRectBounds(S, frameNum, canInterpolate) ==
    IF /\ S.selectedTrackId # Null
       /\ HasTrack(S.camMap, S.selectedTrackId, S.selectedCamera)
    THEN LET feature ==
                 [frame |-> frameNum, keyframe |-> TRUE,
                  interpolate |-> _shouldInterpolate(S, canInterpolate),
                  canInterpolate |-> canInterpolate]
             S1 == setFeature(S, S.selectedTrackId, S.selectedCamera,
                              frameNum)
         IN  newTrackSettingsAfterLogic([S1 EXCEPT !.written = feature])
    ELSE S

handleUnstageFromMerge(S, ids) ==
    [S EXCEPT !.mergeList =
        SelectSeq(@, LAMBDA x : \A i \in 1..Len(ids) : ids[i] # x)]

\* No removal waits for an answer.
NoPending == [open |-> FALSE, trackIds |-> <<>>, cameraName |-> NoCamera,
              previousOrNext |-> Null]

\* The part of handleRemoveTrack after the confirmation.
RECURSIVE RemoveEach(_, _, _)
RemoveEach(S, ids, cameraName) ==
    IF ids = <<>> \/ S.error # NoError THEN S
    ELSE RemoveEach(removeTrack(S, Head(ids), FALSE, cameraName),
                    Tail(ids), cameraName)

finishRemoveTrack(S, ids, cameraName, previousOrNext) ==
    LET S1 == RemoveEach(S, ids, cameraName)
        S2 == handleUnstageFromMerge(S1, ids)
    IN  IF S1.error # NoError THEN S1
        ELSE IF cameraName = NoCamera
        THEN selectTrack(S2, previousOrNext, FALSE)
        ELSE S2

handleRemoveTrack(S, ids, forcePromptDisable, cameraName) ==
    LET maybeNextTrackId == selectNextTrack(S, 1)
        previousOrNext == IF maybeNextTrackId # Null THEN maybeNextTrackId
                          ELSE selectNextTrack(S, -1)
    IN  IF ~forcePromptDisable /\ S.trackSettings.promptUser
        THEN [S EXCEPT !.promptShown = "Delete Confirmation",
                       !.pendingRemove =
                           [open |-> TRUE, trackIds |-> ids,
                            cameraName |-> cameraName,
                            previousOrNext |-> previousOrNext]]
        ELSE finishRemoveTrack(S, ids, cameraName, previousOrNext)

\* A confirmation whose answer is not looked at.
answerRemoveTrack_IgnoresAnswer(S, result) ==
    LET p == S.pendingRemove
    IN  finishRemoveTrack([S EXCEPT !.pendingRemove = NoPending],
                          p.trackIds, p.cameraName, p.previousOrNext)

\* handleRemoveTrack from the point where the prompt's promise resolves.
answerRemoveTrack(S, result) ==
    LET p == S.pendingRemove
        S1 == [S EXCEPT !.pendingRemove = NoPending]
    IN  IF ~result THEN S1
        ELSE finishRemoveTrack(S1, p.trackIds, p.cameraName,
                               p.previousOrNext)

handleTrackEdit(S, trackId) ==
    IF HasTrack(S.camMap, trackId, S.selectedCamera)
    THEN handleSelectTrack(S, trackId,
             IF trackId = S.selectedTrackId THEN ~S.editingTrack ELSE TRUE)
    ELSE IF getTrackAll(S.camMap, trackId) = {}
    THEN [S EXCEPT !.error = NotFound(trackId, NoCamera)]
    ELSE LET S1 == handleAddTrackOrDetection(S, trackId)
         IN  IF S1.error # NoError THEN S1
             ELSE IF HasTrack(S1.camMap, trackId, S1.selectedCamera)
             THEN handleSelectTrack(S1, trackId,
                                    trackId = S1.selectedTrackId)
             ELSE S1

\* A toggle that seeds the candidates and leaves the editing flag alone.
handleToggleMerge_KeepsEditing(S) ==
    IF ~mergeInProgress(S) /\ S.selectedTrackId # Null
    THEN [S EXCEPT !.mergeList = <<S.selectedTrackId>>]
    ELSE [S EXCEPT !.mergeList = <<>>]

handleToggleMerge(S) ==
    IF ~mergeInProgress(S) /\ S.selectedTrackId # Null
    THEN selectTrack([S EXCEPT !.mergeList = <<S.selectedTrackId>>],
                     S.selectedTrackId, FALSE)
    ELSE [S EXCEPT !.mergeList = <<>>]

\* Track.merge(others): the track takes the features of the others.
RECURSIVE MergeInto(_, _, _, _)
MergeInto(S, id, cam, fs) ==
    IF fs = {} THEN S
    ELSE LET f == CHOOSE x \in fs : TRUE
         IN  MergeInto(setFeature(S, id, cam, f), id, cam, fs \ {f})

\* A commit that leaves merge mode before it looks the candidates up.
handleCommitMerge_TogglesFirst(S) ==
    IF Len(S.mergeList) < 2 THEN S
    ELSE LET cam == S.selectedCamera
             first == S.mergeList[1]
             others == Tail(S.mergeList)
             missing == {i \in 1..Len(S.mergeList) :
                            ~HasTrack(S.camMap, S.mergeList[i], cam)}
         IN  IF missing # {}
             THEN [handleToggleMerge(S) EXCEPT
                      !.error = NotFound(S.mergeList[Min(missing)], cam)]
             ELSE LET fs == UNION {S.camMap[cam][others[i]].features :
                                      i \in 1..Len(others)}
                      S1 == MergeInto(S, first, cam, fs)
                      S2 == handleRemoveTrack(S1, others, TRUE, NoCamera)
                      S3 == handleToggleMerge([S2 EXCEPT !.error = NoError])
                  IN  handleSelectTrack(S3, first, FALSE)

\* getTrack is called for the first candidate and then for each of the
\* others, all before track.merge runs: the first one missing is thrown.
handleCommitMerge(S) ==
    IF Len(S.mergeList) < 2 THEN S
    ELSE LET cam == S.selectedCamera
             first == S.mergeList[1]
             others == Tail(S.mergeList)
             missing == {i \in 1..Len(S.mergeList) :
                            ~HasTrack(S.camMap, S.mergeList[i], cam)}
         IN  IF missing # {}
             THEN [S EXCEPT !.error = NotFound(S.mergeList[Min(missing)], cam)]
             ELSE LET fs == UNION {S.camMap[cam][others[i]].features :
                                      i \in 1..Len(others)}
                      S1 == MergeInto(S, first, cam, fs)
                      S2 == handleRemoveTrack(S1, others, TRUE, NoCamera)
                      \* a rejection of the removal stays in its promise
                      S3 == handleToggleMerge([S2 EXCEPT !.error = NoError])
                  IN  handleSelectTrack(S3, first, FALSE)

handleStartLinking(S, camera) ==
    IF ~S.linkingState /\ S.selectedTrackId # Null
    THEN IF camera \in DOMAIN S.camMap
         THEN [S EXCEPT !.linkingState = TRUE, !.linkingCamera = camera]
         ELSE [S EXCEPT !.linkingState = TRUE,
                        !.error = NotFound(Null, camera)]
    ELSE IF S.selectedTrackId = Null
    THEN [S EXCEPT !.error = [kind |-> "InvalidState", id |-> Null,
                              cam |-> camera]]
    ELSE S

handleStopLinking(S) ==
    [S EXCEPT !.linkingState = FALSE, !.linkingTrack = Null,
              !.linkingCamera = NoCamera]

\* The type names a user can give a track.
TypeValues == TrackTypes \cup {"fish"}

RECURSIVE SetTypeOn(_, _, _, _)
SetTypeOn(S, id, cams, value) ==
    IF cams = {} THEN S
    ELSE LET c == CHOOSE x \in cams : TRUE
         IN  SetTypeOn(setType(S, id, c, value), id, cams \ {c}, value)

handleTrackTypeChange(S, trackId, value) ==
    IF trackId # Null
    THEN SetTypeOn(S, trackId, getTrackAll(S.camMap, trackId), value)
    ELSE S

\* seekNearest(track): the playback moves into the range of the track.
seekNearest(S, begin, end) ==
    IF S.frame < begin THEN [S EXCEPT !.frame = begin]
    ELSE IF S.frame > end THEN [S EXCEPT !.frame = end]
    ELSE S

MergedEnd(cm, id) == Max({cm[c][id].end : c \in getTrackAll(cm, id)})

handleTrackClick(S, trackId) ==
    handleSelectTrack(
        seekNearest(S, MergedBegin(S.camMap, trackId),
                    MergedEnd(S.camMap, trackId)),
        trackId, S.editingTrack)

handleSelectNext(S, delta) ==
    LET newTrack == selectNextTrack(S, delta)
    IN  IF newTrack = Null THEN S
        ELSE LET S1 == handleSelectTrack(S, newTrack, FALSE)
                 t == S1.camMap[AnyCamera(S1.camMap, newTrack)][newTrack]
             IN  seekNearest(S1, t.begin, t.end)

\* --------------------------------------------- editing mode and recipes
\* Editing details that take a shape for enough, bounds or not.
editingDetails_IgnoresBounds(S) ==
    LET sel == S.selectedTrackId
        cam == S.selectedCamera
    IN  IF S.editingTrack /\ sel # Null /\ HasTrack(S.camMap, sel, cam)
        THEN LET t == S.camMap[cam][sel]
             IN  IF getFeature(t, S.frame)[1]
                 THEN IF S.annotationModes.editing = "rectangle"
                      THEN "Editing"
                      ELSE IF \E k \in Keys :
                                 <<S.frame, k, S.annotationModes.editing>>
                                     \in t.shapes
                      THEN "Editing"
                      ELSE "Creating"
                 ELSE "Creating"
        ELSE "disabled"

\* What is occurring in editing mode. editingMode is editingTrack &&
\* annotationModes.editing, and no editing type is the empty string.
editingDetails(S) ==
    LET sel == S.selectedTrackId
        cam == S.selectedCamera
    IN  IF S.editingTrack /\ sel # Null /\ HasTrack(S.camMap, sel, cam)
        THEN LET t == S.camMap[cam][sel]
             IN  IF getFeature(t, S.frame)[1]
                 THEN IF S.frame \notin t.bounds THEN "Creating"
                      ELSE IF S.annotationModes.editing = "rectangle"
                      THEN "Editing"
                      ELSE IF \E k \in Keys :
                                 <<S.frame, k, S.annotationModes.editing>>
                                     \in t.shapes
                      THEN "Editing"
                      ELSE "Creating"
                 ELSE "Creating"
        ELSE "disabled"

_selectKey(S, key) ==
    [S EXCEPT !.selectedKey = IF key = Undefined THEN "" ELSE key]

\* r.deactivate() for every recipe but the one named.
DeactivateExcept(S, recipeName) ==
    [S EXCEPT !.recipes =
        [n \in DOMAIN @ |-> IF n = recipeName THEN @[n]
                             ELSE [active |-> FALSE]]]

handleSetAnnotationState(S, editing, key, recipeName) ==
    IF editing = Undefined THEN S
    ELSE LET S1 == _selectKey([S EXCEPT !.annotationModes.editing = editing],
                              key)
             S2 == handleSelectTrack(S1, S1.selectedTrackId, TRUE)
         IN  DeactivateExcept(S2, recipeName)

\* What a recipe says of its completion: done is true, false or left out.
DoneValues == {Undefined, "true", "false"}

\* The value counts as set for `if (value)`.
Truthy(v) == v \notin {Undefined, ""}

\* The aggregate update collector, before any recipe was asked.
EmptyUpdate ==
    [geoJsonFeatureRecord |-> {}, union |-> FALSE,
     unionWithoutBounds |-> FALSE, newType |-> Undefined,
     newSelectedKey |-> Undefined, done |-> <<>>, conflict |-> FALSE]

DataKeys(data) == {p[1] : p \in data}

\* recipes.forEach: each recipe's changes go into the collector, and the
\* loop is left by a throw when a key, the type or the selected key was
\* already set.
RECURSIVE Collect(_, _)
Collect(update, results) ==
    IF results = <<>> \/ update.conflict THEN update
    ELSE LET changes == Head(results)
             clash ==
                 \/ DataKeys(changes.data)
                        \cap DataKeys(update.geoJsonFeatureRecord) # {}
                 \/ Truthy(changes.newType) /\ Truthy(update.newType)
                 \/ Truthy(changes.newSelectedKey)
                        /\ Truthy(update.newSelectedKey)
             next ==
                 [geoJsonFeatureRecord |->
                      update.geoJsonFeatureRecord \cup changes.data,
                  union |-> update.union \/ changes.union,
                  unionWithoutBounds |->
                      update.unionWithoutBounds \/ changes.unionWithoutBounds,
                  newType |-> IF Truthy(changes.newType)
                              THEN changes.newType ELSE update.newType,
                  newSelectedKey |->
                      IF Truthy(changes.newSelectedKey)
                      THEN changes.newSelectedKey ELSE update.newSelectedKey,
                  done |-> Append(update.done, changes.done),
                  conflict |-> FALSE]
         IN  IF clash THEN [update EXCEPT !.conflict = TRUE]
             ELSE Collect(next, Tail(results))

Conflict(id, cam) == [kind |-> "Conflict", id |-> id, cam |-> cam]
InvalidState(cam) == [kind |-> "InvalidState", id |-> Null, cam |-> cam]

\* A mode switch that leaves the recipes as they are.
InterruptOrSwitch_KeepsRecipes(S, update, somethingChanged, preventInterrupt) ==
    IF /\ somethingChanged
       /\ ~Truthy(update.newSelectedKey)
       /\ ~Truthy(update.newType)
       /\ preventInterrupt
    THEN [S EXCEPT !.prevented = TRUE]
    ELSE LET Sk == IF Truthy(update.newSelectedKey)
                   THEN [S EXCEPT !.selectedKey = update.newSelectedKey]
                   ELSE S
         IN  IF Truthy(update.newType)
             THEN [Sk EXCEPT !.annotationModes.editing = update.newType]
             ELSE Sk

\* Either the caller's preventInterrupt is called, or the selected key and
\* the editing type follow the update and every recipe is deactivated.
InterruptOrSwitch(S, update, somethingChanged, preventInterrupt) ==
    IF /\ somethingChanged
       /\ ~Truthy(update.newSelectedKey)
       /\ ~Truthy(update.newType)
       /\ preventInterrupt
    THEN [S EXCEPT !.prevented = TRUE]
    ELSE LET Sk == IF Truthy(update.newSelectedKey)
                   THEN [S EXCEPT !.selectedKey = update.newSelectedKey]
                   ELSE S
         IN  IF Truthy(update.newType)
             THEN DeactivateExcept(
                      [Sk EXCEPT !.annotationModes.editing = update.newType],
                      Undefined)
             ELSE Sk

\* results[i] is what recipe i answers to update(eventType, frameNum, track,
\* [data], key); preventInterrupt tells whether the callback was handed in.
handleUpdateGeoJSON(S, eventType, frameNum, results, preventInterrupt) ==
    LET sel == S.selectedTrackId
        cam == S.selectedCamera
    IN  IF sel = Null THEN [S EXCEPT !.error = InvalidState(cam)]
        ELSE IF ~HasTrack(S.camMap, sel, cam)
        THEN [S EXCEPT !.error = NotFound(sel, cam)]
        ELSE
        LET track == S.camMap[cam][sel]
            update == Collect(EmptyUpdate, results)
            somethingChanged ==
                \/ update.union
                \/ update.unionWithoutBounds
                \/ update.geoJsonFeatureRecord # {}
            S1 == InterruptOrSwitch(S, update, somethingChanged,
                                    preventInterrupt)
            \* updateBounds(real?.bounds, union, unionWithoutBounds)
            hasBounds == \/ frameNum \in track.bounds
                         \/ update.union
                         \/ update.unionWithoutBounds
            S2 == onChange(S1, cam, track,
                           TrackSetGeometry(track, frameNum, hasBounds,
                                            update.geoJsonFeatureRecord))
        IN  IF update.conflict THEN [S EXCEPT !.error = Conflict(sel, cam)]
            ELSE IF ~somethingChanged THEN S1
            ELSE IF \/ eventType = "editing"
                    \/ \A i \in 1..Len(update.done) : update.done[i] # "false"
            THEN newTrackSettingsAfterLogic(S2)
            ELSE S2

\* ------------------------------------------------- the store on its own
DefaultSettings ==
    [mode |-> "Track", autoAdvanceFrame |-> FALSE, continuous |-> FALSE,
     interpolate |-> FALSE, promptUser |-> FALSE]

Op(name) == [op |-> name]

\* The store and the manager as constructed: no track, nothing selected.
Init ==
    /\ camMap = [c \in Cameras |-> <<>>]
    /\ trackIds = <<>>
    /\ intervalTree = EmptyBag
    /\ nextTrackId = 0
    /\ sortedTracks = <<>>
    /\ didCall = FALSE
    /\ called = FALSE
    /\ error = NoError
    /\ last = Op("init")
    /\ returned = {}
    /\ trackSettings = DefaultSettings
    /\ selectedTrackId = Null
    /\ selectedCamera = "singleCam"
    /\ editingTrack = FALSE
    /\ frame = 0
    /\ creating = FALSE
    /\ mergeList = <<>>
    /\ linkingState = FALSE
    /\ linkingTrack = Null
    /\ linkingCamera = NoCamera
    /\ pendingRemove = NoPending
    /\ annotationModes = [editing |-> "rectangle"]
    /\ selectedKey = ""
    /\ recipes = [n \in {RecipeNames[i] : i \in 1..Len(RecipeNames)} |->
                     [active |-> FALSE]]
    /\ prevented = FALSE
    /\ asked = NoCall
    /\ written = NoFeature
    /\ promptShown = ""

\* ts.addTrack(frame, type, afterId, cameraName, overrideTrackId)
StoreAddTrack(f, type, cam, overrideId) ==
    /\ overrideId = Null => nextTrackId < MaxTrackId
    /\ TrackCount(camMap) < MaxTracks
    /\ LET S == addTrack(State, f, type, Null, cam, overrideId)
       IN  /\ Becomes(S)
           /\ last' = Op("addTrack")
           /\ returned' = IF overrideId = Null /\ S.error = NoError
                          THEN returned \cup {S.ret} ELSE returned

\* ts.removeTrack(trackId, disableNotifications, cameraName)
StoreRemoveTrack(id, disableNotifications, cam) ==
    /\ Becomes(removeTrack(State, id, disableNotifications, cam))
    /\ last' = Op("removeTrack")
    /\ UNCHANGED returned

\* track.setFeature / setType / setAttribute on a member track
StoreSetFeature(id, cam, f) ==
    /\ HasTrack(camMap, id, cam)
    /\ Becomes(setFeature(State, id, cam, f))
    /\ last' = Op("setFeature")
    /\ UNCHANGED returned

StoreSetType(id, cam, type) ==
    /\ HasTrack(camMap, id, cam)
    /\ Becomes(setType(State, id, cam, type))
    /\ last' = Op("setType")
    /\ UNCHANGED returned

StoreSetAttribute(id, cam, v) ==
    /\ HasTrack(camMap, id, cam)
    /\ Becomes(setAttribute(State, id, cam, v))
    /\ last' = Op("setAttribute")
    /\ UNCHANGED returned

\* getTrack(ts.camMap, id, cameraName)
StoreGetTrack(id, cam) ==
    /\ Becomes([State EXCEPT !.error = getTrackError(camMap, id, cam)])
    /\ last' = Op("getTrack")
    /\ UNCHANGED returned

\* The test's observer resets its flags between two steps.
ResetFlags ==
    /\ didCall \/ called
    /\ Becomes([State EXCEPT !.didCall = FALSE, !.called = FALSE])
    /\ last' = Op("reset")
    /\ UNCHANGED returned

NextStore ==
    \/ \E f \in Frames, type \in TrackTypes, cam \in Cameras,
          o \in TrackIds \cup {Null} : StoreAddTrack(f, type, cam, o)
    \/ \E id \in TrackIds, d \in BOOLEAN, cam \in Cameras \cup {NoCamera} :
          StoreRemoveTrack(id, d, cam)
    \/ \E id \in TrackIds, cam \in Cameras, f \in Frames :
          StoreSetFeature(id, cam, f)
    \/ \E id \in TrackIds, cam \in Cameras, type \in TrackTypes :
          StoreSetType(id, cam, type)
    \/ \E id \in TrackIds, cam \in Cameras, v \in AttrValues :
          StoreSetAttribute(id, cam, v)
    \/ \E id \in TrackIds, cam \in CameraNames : StoreGetTrack(id, cam)
    \/ ResetFlags

SpecStore == Init /\ [][NextStore]_vars

\* ------------------------------------------------------- the session
CanAdd(S) == S.nextTrackId < MaxTrackId /\ TrackCount(S.camMap) < MaxTracks

Handled(name, S) ==
    /\ Becomes(S)
    /\ last' = Op(name)
    /\ returned' = returned

\* handler.trackSelect
SelectTrack(trackId, edit) ==
    Handled("trackSelect", handleSelectTrack(State, trackId, edit))

\* handler.trackAbort
Escape == Handled("trackAbort", handleEscapeMode(State))

\* handler.trackAdd
AddTrackOrDetection(overrideTrackId) ==
    /\ overrideTrackId = Null => nextTrackId < MaxTrackId
    /\ TrackCount(camMap) < MaxTracks
    /\ LET S == handleAddTrackOrDetection(State, overrideTrackId)
       IN  /\ Becomes(S)
           /\ last' = Op("trackAdd")
           /\ returned' = IF overrideTrackId = Null /\ S.error = NoError
                          THEN returned \cup {S.ret} ELSE returned

\* handler.updateRectBounds
UpdateRectBounds(frameNum) ==
    /\ (creating /\ trackSettings.mode = "Detection"
                 /\ trackSettings.continuous) => CanAdd(State)
    /\ (creating /\ trackSettings.mode = "Track"
                 /\ trackSettings.autoAdvanceFrame) => frame < MaxFrame
    /\ \E canInterpolate \in BOOLEAN :
          LET S == handleUpdateRectBounds(State, frameNum, canInterpolate)
          IN  /\ Becomes(S)
              /\ last' = Op("updateRectBounds")
              /\ returned' = IF S.nextTrackId # nextTrackId
                             THEN returned \cup {S.ret} ELSE returned

\* handler.removeTrack
RemoveTrack(ids, forcePromptDisable, cameraName) ==
    /\ ~pendingRemove.open
    /\ Handled("removeTrack",
               handleRemoveTrack(State, ids, forcePromptDisable, cameraName))

\* handler.trackEdit
TrackEdit(trackId) ==
    /\ ~HasTrack(camMap, trackId, selectedCamera)
          => TrackCount(camMap) < MaxTracks
    /\ Handled("trackEdit", handleTrackEdit(State, trackId))

\* handler.toggleMerge, commitMerge, unstageFromMerge
ToggleMerge == Handled("toggleMerge", handleToggleMerge(State))

CommitMerge == Handled("commitMerge", handleCommitMerge(State))

UnstageFromMerge(ids) ==
    Handled("unstageFromMerge", handleUnstageFromMerge(State, ids))

\* handler.startLinking, stopLinking
StartLinking(camera) ==
    Handled("startLinking", handleStartLinking(State, camera))

StopLinking == Handled("stopLinking", handleStopLinking(State))

\* handler.trackSeek, selectNext
TrackClick(trackId) == Handled("trackSeek", handleTrackClick(State, trackId))

SelectNext(delta) == Handled("selectNext", handleSelectNext(State, delta))

\* handler.trackTypeChange
TrackTypeChange(trackId, value) ==
    Handled("trackTypeChange", handleTrackTypeChange(State, trackId, value))

\* The user answers the delete confirmation.
PromptAnswer(result) ==
    /\ pendingRemove.open
    /\ Handled(IF result THEN "promptConfirmed" ELSE "promptRejected",
               answerRemoveTrack(State, result))

\* The TrackSettings component writes the client settings.
SetTrackSettings(s) ==
    /\ s # trackSettings
    /\ Handled("setTrackSettings", [State EXCEPT !.trackSettings = s])

\* The call as the recipes saw it: which of them set newType (and to
\* what) and newSelectedKey, whether two wrote one key, whether anything
\* was drawn and whether one of them is not done.
Asked(eventType, results, preventInterrupt) ==
    LET I == 1..Len(results)
    IN  [eventType |-> eventType, preventInterrupt |-> preventInterrupt,
         sameKey |-> \E i \in I, j \in I :
                        /\ i < j
                        /\ DataKeys(results[i].data)
                               \cap DataKeys(results[j].data) # {},
         newType |-> {<<i, results[i].newType>> :
                         i \in {j \in I : results[j].newType # Undefined}},
         newSelectedKey |->
             {i \in I : results[i].newSelectedKey # Undefined},
         changed |-> \E i \in I : \/ results[i].union
                                  \/ results[i].unionWithoutBounds
                                  \/ results[i].data # {},
         unfinished |-> \E i \in I : results[i].done = "false"]

\* handler.updateGeoJSON, drawn at the frame shown
UpdateGeoJSON(eventType, results, preventInterrupt) ==
    /\ (creating /\ trackSettings.mode = "Detection"
                 /\ trackSettings.continuous) => CanAdd(State)
    /\ (creating /\ trackSettings.mode = "Track"
                 /\ trackSettings.autoAdvanceFrame) => frame < MaxFrame
    /\ LET S == handleUpdateGeoJSON(State, eventType, frame, results,
                                    preventInterrupt)
       IN  /\ Becomes([S EXCEPT !.asked = Asked(eventType, results,
                                                preventInterrupt)])
           /\ last' = Op("updateGeoJSON")
           /\ returned' = IF S.nextTrackId # nextTrackId
                          THEN returned \cup {S.ret} ELSE returned

\* handler.setAnnotationState
SetAnnotationState(editing, key, recipeName) ==
    Handled("setAnnotationState",
            handleSetAnnotationState(State, editing, key, recipeName))

\* A recipe activates itself and emits 'activate' with its type and key.
RecipeActivate(n, editing, key) ==
    Handled("recipeActivate",
            handleSetAnnotationState(
                [State EXCEPT !.recipes[n] = [active |-> TRUE]],
                editing, key, n))

SelectCamera(cam) ==
    /\ cam # selectedCamera
    /\ Handled("selectCamera", [State EXCEPT !.selectedCamera = cam])

\* The lists of ids a caller hands over: one or two ids of the store.
IdLists(cm) ==
    {<<i>> : i \in AllIds(cm)}
        \cup {<<p[1], p[2]>> : p \in {q \in AllIds(cm) \X AllIds(cm) : q[1] # q[2]}}

Next ==
    \/ \E id \in AllIds(camMap) \cup {Null}, edit \in BOOLEAN :
          SelectTrack(id, edit)
    \/ Escape
    \/ \E o \in TrackIds \cup {Null} : AddTrackOrDetection(o)
    \/ UpdateRectBounds(frame)
    \/ \E ids \in IdLists(camMap), force \in BOOLEAN,
          cam \in Cameras \cup {NoCamera} : RemoveTrack(ids, force, cam)
    \/ \E id \in AllIds(camMap) : TrackEdit(id)
    \/ ToggleMerge
    \/ CommitMerge
    \/ \E ids \in IdLists(camMap) : UnstageFromMerge(ids)
    \/ \E camera \in CameraNames : StartLinking(camera)
    \/ StopLinking
    \/ \E cam \in Cameras : SelectCamera(cam)
    \/ \E id \in AllIds(camMap) : TrackClick(id)
    \/ \E delta \in {-1, 1} : SelectNext(delta)

Spec == Init /\ [][Next]_vars

\* Tracks added, typed and removed over the cameras of the session.
NextAdd ==
    \/ \E o \in TrackIds \cup {Null} : AddTrackOrDetection(o)
    \/ \E id \in AllIds(camMap) \cup {Null}, value \in TypeValues :
          TrackTypeChange(id, value)
    \/ \E id \in AllIds(camMap) \cup {Null}, edit \in BOOLEAN :
          SelectTrack(id, edit)
    \/ \E ids \in IdLists(camMap), cam \in Cameras \cup {NoCamera} :
          RemoveTrack(ids, TRUE, cam)
    \/ \E cam \in Cameras : SelectCamera(cam)

SpecAdd == Init /\ [][NextAdd]_vars

\* Removals that ask first, with the other actions going on meanwhile.
PromptSettings == {[DefaultSettings EXCEPT !.promptUser = b] : b \in BOOLEAN}

NextPrompt ==
    \/ \E s \in PromptSettings : SetTrackSettings(s)
    \/ AddTrackOrDetection(Null)
    \/ \E id \in AllIds(camMap) \cup {Null}, edit \in BOOLEAN :
          SelectTrack(id, edit)
    \/ Escape
    \/ UpdateRectBounds(frame)
    \/ ToggleMerge
    \/ \E ids \in IdLists(camMap), force \in BOOLEAN,
          cam \in Cameras \cup {NoCamera} : RemoveTrack(ids, force, cam)
    \/ \E result \in BOOLEAN : PromptAnswer(result)

SpecPrompt == Init /\ [][NextPrompt]_vars

\* Tracks and detections created under every new-track setting.
CreateSettings ==
    {[DefaultSettings EXCEPT !.mode = m, !.autoAdvanceFrame = a,
                             !.continuous = c] :
        m \in {"Track", "Detection"}, a \in BOOLEAN, c \in BOOLEAN}

NextCreate ==
    \/ \E s \in CreateSettings : SetTrackSettings(s)
    \/ AddTrackOrDetection(Null)
    \/ UpdateRectBounds(frame)
    \/ \E id \in AllIds(camMap) \cup {Null}, edit \in BOOLEAN :
          SelectTrack(id, edit)
    \/ Escape

SpecCreate == Init /\ [][NextCreate]_vars

\* Geometry drawn through the recipes. A recipe's answer fills in any of
\* the fields of a RecipeResult; the answers of one update fill in at most
\* MaxContributions fields between them.
DataChoices == {{}, {<<"", "Polygon">>}, {<<"head", "LineString">>}}

RecipeResults ==
    [data : DataChoices, union : BOOLEAN, unionWithoutBounds : BOOLEAN,
     newType : {Undefined} \cup ShapeTypes,
     newSelectedKey : {Undefined} \cup Keys, done : DoneValues]

EmptyResult ==
    [data |-> {}, union |-> FALSE, unionWithoutBounds |-> FALSE,
     newType |-> Undefined, newSelectedKey |-> Undefined, done |-> Undefined]

Contributions(r) ==
    Cardinality({f \in DOMAIN EmptyResult : r[f] # EmptyResult[f]})

\* The answers that write keys and switch the type or the selected key.
SwitchResults ==
    {r \in RecipeResults :
        ~r.union /\ ~r.unionWithoutBounds /\ r.done = Undefined}

SwitchLists ==
    {rs \in SwitchResults \X SwitchResults :
        Contributions(rs[1]) + Contributions(rs[2]) <= MaxContributions}

NextGeo ==
    \/ AddTrackOrDetection(Null)
    \/ \E results \in SwitchLists, preventInterrupt \in BOOLEAN :
          UpdateGeoJSON("editing", results, preventInterrupt)
    \/ \E editing \in EditTypes \cup {Undefined},
          key \in Keys \cup {Undefined} :
          SetAnnotationState(editing, key, Undefined)
    \/ \E i \in 1..Len(RecipeNames), editing \in ShapeTypes, key \in Keys :
          RecipeActivate(RecipeNames[i], editing, key)

SpecGeo == Init /\ [][NextGeo]_vars

\* Selecting, drawing and removing, one contribution at a time, for the
\* editing mode that results.
SingleResults ==
    {rs \in RecipeResults \X RecipeResults :
        Contributions(rs[1]) + Contributions(rs[2]) <= 1}

NextDetails ==
    \/ AddTrackOrDetection(Null)
    \/ \E id \in AllIds(camMap) \cup {Null}, edit \in BOOLEAN :
          SelectTrack(id, edit)
    \/ \E id \in AllIds(camMap) : RemoveTrack(<<id>>, TRUE, selectedCamera)
    \/ UpdateRectBounds(frame)
    \/ \E results \in SingleResults :
          UpdateGeoJSON("editing", results, FALSE)
    \/ \E editing \in EditTypes : SetAnnotationState(editing, Undefined, Undefined)

SpecDetails == Init /\ [][NextDetails]_vars

\* Geometry drawn while creating, with or without the caller's callback.
\* One recipe draws (a shape under a key, a union, or a union without
\* bounds, or nothing) and the other answers on the mode: the type, the
\* selected key, its completion.
EventTypes == {"in-progress", "editing"}

DrawResults ==
    {r \in RecipeResults :
        /\ Contributions(r) <= 1
        /\ r.data \in {{}, {<<"", "Polygon">>}}
        /\ r.newType = Undefined
        /\ r.newSelectedKey = Undefined
        /\ r.done = Undefined}

ModeResults ==
    {r \in RecipeResults :
        /\ r.data = {} /\ ~r.union /\ ~r.unionWithoutBounds
        /\ r.newType \in {Undefined, "Polygon"}
        /\ r.newType = Undefined \/ r.newSelectedKey = Undefined}

UpdateLists == DrawResults \X ModeResults

NextInterrupt ==
    \/ AddTrackOrDetection(Null)
    \/ \E eventType \in EventTypes, results \in UpdateLists,
          preventInterrupt \in BOOLEAN :
          UpdateGeoJSON(eventType, results, preventInterrupt)
    \/ \E i \in 1..Len(RecipeNames) :
          RecipeActivate(RecipeNames[i], "Polygon", "")

SpecInterrupt == Init /\ [][NextInterrupt]_vars

\* Rectangles drawn on new and on existing tracks and detections, under
\* either default for the interpolation of a new track.
InterpolateSettings ==
    {[DefaultSettings EXCEPT !.mode = m, !.interpolate = i] :
        m \in {"Track", "Detection"}, i \in BOOLEAN}

NextInterpolate ==
    \/ \E s \in InterpolateSettings : SetTrackSettings(s)
    \/ AddTrackOrDetection(Null)
    \/ \E id \in AllIds(camMap) \cup {Null}, edit \in BOOLEAN :
          SelectTrack(id, edit)
    \/ \E cam \in Cameras : SelectCamera(cam)
    \/ UpdateRectBounds(frame)

SpecInterpolate == Init /\ [][NextInterpolate]_vars

\* ================================================== the track store claims
ViewIds == {sortedTracks[i] : i \in 1..Len(sortedTracks)}

\* The ordered view lists exactly the ids of the camera maps, each once.
ViewListsStore ==
    /\ ViewIds = AllIds(camMap)
    /\ \A i, j \in 1..Len(sortedTracks) :
          i # j => sortedTracks[i] # sortedTracks[j]

\* The tracks of the store, as <<camera, id>> pairs.
StoreTracks == {p \in Cameras \X TrackIds : HasTrack(camMap, p[2], p[1])}

\* The interval tree holds one entry per track of the camera maps.
TreeMatchesStore ==
    \A b \in Frames, e \in Frames, id \in TrackIds :
        CopiesIn(<<b, e, TreeValue(id)>>, intervalTree)
            = Cardinality({p \in StoreTracks :
                              /\ p[2] = id
                              /\ camMap[p[1]][id].begin = b
                              /\ camMap[p[1]][id].end = e})

\* C1, as stated: after any addTrack and removeTrack calls the ordered view
\* lists exactly the ids of the map, each once, in ascending id order, and
\* the interval tree holds exactly one entry per track.
C1_AsStated ==
    /\ ViewListsStore
    /\ \A i, j \in 1..Len(sortedTracks) :
          i < j => sortedTracks[i] < sortedTracks[j]
    /\ TreeMatchesStore

\* C1, amended: the ordered view lists exactly the ids of the map, each
\* once, ordered by the frame each track begins at (not by id), and the
\* interval tree holds exactly one entry per track.
C1_ViewAndIndexMatchStore ==
    /\ ViewListsStore
    /\ \A i, j \in 1..Len(sortedTracks) :
          i < j => MergedBegin(camMap, sortedTracks[i])
                      <= MergedBegin(camMap, sortedTracks[j])
    /\ TreeMatchesStore

\* A track was removed and one track is left in the view and the tree.
C1_Witness ==
    /\ last.op = "removeTrack"
    /\ error = NoError
    /\ Len(sortedTracks) = 1
    /\ TrackCount(camMap) = 1

\* C2: for every range [a, b], the search of the interval tree returns
\* exactly the ids of the tracks in the store whose [begin, end] meets
\* [a, b].
C2_QueryReturnsOverlapping ==
    \A a \in Frames, b \in Frames :
        a <= b =>
            TreeSearch(intervalTree, a, b)
                = {TreeValue(p[2]) : p \in {q \in StoreTracks :
                      /\ camMap[q[1]][q[2]].begin <= b
                      /\ a <= camMap[q[1]][q[2]].end}}

\* Two single-frame tracks sat on one frame, one was removed, and the
\* search at that frame still finds the other.
C2_Witness ==
    /\ last.op = "removeTrack"
    /\ error = NoError
    /\ \E f \in Frames :
          /\ Cardinality(TreeSearch(intervalTree, f, f)) = 1
          /\ \E p \in StoreTracks : camMap[p[1]][p[2]].begin = f
                                    /\ camMap[p[1]][p[2]].end = f

C4_GetTrackNotFound ==
    [][\A id \in TrackIds, cam \in CameraNames :
          StoreGetTrack(id, cam) =>
              /\ HasTrack(camMap, id, cam) => error' = NoError
              /\ ~HasTrack(camMap, id, cam) =>
                    /\ error'.kind = "NotFound"
                    /\ error'.id = id
                    /\ error'.cam = cam
              /\ UNCHANGED storeVars]_vars

\* A lookup failed for an id that another camera holds.
C4_Witness ==
    /\ last.op = "getTrack"
    /\ error.kind = "NotFound"
    /\ error.cam \in Cameras
    /\ getTrackAll(camMap, error.id) # {}

\* C5: addTrack invokes the changes-pending callback, and the ordered view
\* is evaluated again after setAttribute, setFeature and setType on a
\* member track, and after a removal.
C5_MutationsNotify ==
    /\ (last.op = "addTrack" /\ error = NoError) => didCall
    /\ last.op \in {"setAttribute", "setFeature", "setType"} => called
    /\ (last.op = "removeTrack" /\ error = NoError) =>
          sortedTracks = EvalSortedTracks(camMap, trackIds)

\* A setter ran on a member track and the view was evaluated again.
C5_Witness ==
    /\ last.op = "setAttribute"
    /\ called
    /\ didCall

\* ================================================= the mode manager claims
MergePending == Len(mergeList) > 0

\* C6, as stated: while merge is pending, selectTrack(id, edit) with an id
\* appends the id to mergeCandidates and leaves the selection as it was.
C6_AsStated ==
    [][\A id \in TrackIds, edit \in BOOLEAN :
          (MergePending /\ SelectTrack(id, edit)) =>
              /\ mergeList' = AddToList(mergeList, id)
              /\ selectedTrackId' = selectedTrackId]_vars

\* C6, amended: while merge is pending, selectTrack(id, edit) with an id
\* appends the id to mergeCandidates (once) and does not return early: the
\* selection becomes the id, with editing off.
C6_MergeSelectStagesAndSelects ==
    [][\A id \in TrackIds, edit \in BOOLEAN :
          (MergePending /\ SelectTrack(id, edit)) =>
              /\ mergeList' = AddToList(mergeList, id)
              /\ selectedTrackId' = id
              /\ editingTrack' = FALSE]_vars

\* A second track was selected while the merge was pending.
C6_Witness ==
    /\ last.op = "trackSelect"
    /\ Len(mergeList) = 2
    /\ selectedTrackId = mergeList[2]

\* C7: in every state the manager's actions reach, a pending merge means
\* that the editing flag is off.
C7_EditingSuppressedInMerge == MergePending => ~editingTrack

\* The link target follows the cameras that hold the id.
LinkResolved(id) ==
    IF Cardinality(getTrackAll(camMap, id)) = 1
    THEN linkingTrack' = id
    ELSE /\ promptShown' = "Linking Error"
         /\ linkingTrack' = linkingTrack

\* C8, as stated: while linking is active, selecting an id stores it as the
\* link target if and only if exactly one camera holds it; otherwise a
\* conflict is surfaced and the target is left as it was.
C8_AsStated ==
    [][\A id \in TrackIds, edit \in BOOLEAN :
          (linkingState /\ SelectTrack(id, edit)) => LinkResolved(id)]_vars

\* C8, amended: while linking is active and no merge is pending, selecting
\* an id of the store stores it as the link target if and only if exactly
\* one camera holds it; when several cameras hold it a conflict is surfaced
\* and the target is left as it was. While a merge is pending the id is
\* staged for the merge and the target is left as it was.
C8_LinkTargetOnOneCamera ==
    [][\A id \in TrackIds, edit \in BOOLEAN :
          (linkingState /\ id \in AllIds(camMap) /\ SelectTrack(id, edit)) =>
              IF MergePending
              THEN linkingTrack' = linkingTrack /\ promptShown' = ""
              ELSE LinkResolved(id)]_vars

\* A track of one camera became the link target.
C8_Witness ==
    /\ last.op = "trackSelect"
    /\ linkingState
    /\ linkingTrack # Null
    /\ Cardinality(getTrackAll(camMap, linkingTrack)) = 1

\* C9, as stated: while linking is active, selectTrack leaves the selection
\* and the editing flag as they were, for every id and whatever the merge
\* state.
C9_AsStated ==
    [][\A id \in TrackIds \cup {Null}, edit \in BOOLEAN :
          (linkingState /\ SelectTrack(id, edit)) =>
              /\ selectedTrackId' = selectedTrackId
              /\ editingTrack' = editingTrack]_vars

\* C9, amended: while linking is active, selectTrack leaves the selection
\* and the editing flag as they were when no merge is pending or the id is
\* null; with a merge pending and an id, the id is selected with editing
\* off.
C9_LinkingSelectReturnsEarly ==
    [][\A id \in TrackIds \cup {Null}, edit \in BOOLEAN :
          (linkingState /\ SelectTrack(id, edit)) =>
              IF MergePending /\ id # Null
              THEN selectedTrackId' = id /\ editingTrack' = FALSE
              ELSE /\ selectedTrackId' = selectedTrackId
                   /\ editingTrack' = editingTrack]_vars

\* Another track than the selected one was clicked while linking, and the
\* selection stayed.
C9_Witness ==
    /\ last.op = "trackSelect"
    /\ linkingState
    /\ ~MergePending
    /\ linkingTrack # Null
    /\ selectedTrackId # Null
    /\ selectedTrackId # linkingTrack

\* The selection holds a track of the current camera with no feature.
SelectedIsEmpty ==
    /\ selectedTrackId # Null
    /\ HasTrack(camMap, selectedTrackId, selectedCamera)
    /\ camMap[selectedCamera][selectedTrackId].features = {}

\* The camera maps without one track.
WithoutTrack(cm, id, cam) ==
    [c \in DOMAIN cm |->
        IF c = cam THEN [i \in DOMAIN cm[c] \ {id} |-> cm[c][i]] ELSE cm[c]]

\* C10: escape() ends with no selection, no merge candidates and linking
\* off (no camera, no target); a selected track of the current camera with
\* no features is removed from the store, and with a selected track that
\* has a feature no track is added, removed or changed.
C10_EscapeClearsAndDropsEmpty ==
    [][Escape =>
          /\ selectedTrackId' = Null
          /\ mergeList' = <<>>
          /\ ~linkingState'
          /\ linkingCamera' = NoCamera
          /\ linkingTrack' = Null
          /\ camMap' = IF SelectedIsEmpty
                       THEN WithoutTrack(camMap, selectedTrackId,
                                         selectedCamera)
                       ELSE camMap]_vars

\* escape() removed the only track, which had no feature yet.
C10_Witness ==
    /\ last.op = "trackAbort"
    /\ nextTrackId = 1
    /\ TrackCount(camMap) = 0
    /\ selectedTrackId = Null

\* ================================================ the session claims, II
\* One of the actions that take the selection elsewhere.
Deselecting ==
    \/ Escape
    \/ \E id \in AllIds(camMap) \cup {Null}, edit \in BOOLEAN :
          SelectTrack(id, edit)
    \/ \E delta \in {-1, 1} : SelectNext(delta)
    \/ \E id \in AllIds(camMap) : TrackClick(id)
    \/ \E o \in TrackIds \cup {Null} : AddTrackOrDetection(o)

\* C11: when escape, selectTrack, selectNext, trackSeek or
\* addTrackOrDetection moves the selection away from a track of the current
\* camera that has no features, that track is no longer in the store when
\* the action completes.
C11_EmptyTrackGoesWithSelection ==
    [][(SelectedIsEmpty /\ Deselecting /\ selectedTrackId' # selectedTrackId)
          => ~HasTrack(camMap', selectedTrackId, selectedCamera)]_vars

\* What toggleMerge() does to the candidates, the selection and editing.
ToggleMergeEffect ==
    ToggleMerge =>
        IF ~MergePending /\ selectedTrackId # Null
        THEN /\ mergeList' = <<selectedTrackId>>
             /\ ~editingTrack'
             /\ selectedTrackId' = selectedTrackId
        ELSE mergeList' = <<>>

\* C12 as the spec states it: toggleMerge() seeds the candidates with the
\* selection and turns editing off, or else empties them; and once a toggle
\* has emptied the candidates, selectTrack(id, true) selects id with editing
\* enabled, in every state.
C12_AsStated ==
    [][/\ ToggleMergeEffect
       /\ \A id \in AllIds(camMap) :
             (last.op = "toggleMerge" /\ mergeList = <<>>
                  /\ SelectTrack(id, TRUE))
                 => (selectedTrackId' = id /\ editingTrack')]_vars

\* C12: toggleMerge() with no merge pending and a track selected makes the
\* candidates exactly [selection], turns editing off and keeps the
\* selection; in every other case it empties the candidates. After a toggle
\* that emptied them, selectTrack(id, true) selects id with editing enabled
\* provided linking is not active.
C12_ToggleMergeSeedsOrClears ==
    [][/\ ToggleMergeEffect
       /\ \A id \in AllIds(camMap) :
             (last.op = "toggleMerge" /\ mergeList = <<>> /\ ~linkingState
                  /\ SelectTrack(id, TRUE))
                 => (selectedTrackId' = id /\ editingTrack')]_vars

\* The second toggle emptied the candidates that the first one had seeded
\* with the selection.
C12_Witness ==
    /\ last.op = "toggleMerge"
    /\ mergeList = <<>>
    /\ selectedTrackId # Null
    /\ ~editingTrack
    /\ ~linkingState

\* The candidates as a set, and whether all are tracks of the camera.
Candidates == {mergeList[i] : i \in 1..Len(mergeList)}

CandidatesOnCamera ==
    \A id \in Candidates : HasTrack(camMap, id, selectedCamera)

\* C13: commitMerge() with fewer than 2 candidates changes nothing; with 2
\* or more candidates that all exist on the selected camera, afterwards
\* every candidate but the first is absent from the store, the first is
\* present once, the candidates are empty, the selection is the first
\* candidate with editing off, and no prompt was opened.
C13_CommitMergeLeavesTheFirst ==
    [][CommitMerge =>
          /\ Len(mergeList) < 2 =>
                UNCHANGED <<storeVars, selectedTrackId, editingTrack,
                            mergeList>>
          /\ (Len(mergeList) >= 2 /\ CandidatesOnCamera) =>
                /\ \A id \in Candidates \ {mergeList[1]} :
                      getTrackAll(camMap', id) = {}
                /\ HasTrack(camMap', mergeList[1], selectedCamera)
                /\ Cardinality({i \in 1..Len(trackIds') :
                                   trackIds'[i] = mergeList[1]}) = 1
                /\ mergeList' = <<>>
                /\ selectedTrackId' = mergeList[1]
                /\ ~editingTrack'
                /\ promptShown' # "Delete Confirmation"
                /\ ~pendingRemove'.open]_vars

\* C14: startLinking(camera) with no selection, or with a camera that is
\* not in the session, fails with an error and leaves linking.active,
\* linking.camera and linking.target as they were.
C14_FailedStartLinkingChangesNothing ==
    [][\A camera \in CameraNames :
          (StartLinking(camera)
               /\ (selectedTrackId = Null \/ camera \notin Cameras))
              => /\ error' # NoError
                 /\ UNCHANGED <<linkingState, linkingCamera,
                                linkingTrack>>]_vars

\* The camera maps with one more track on one camera.
WithTrack(cm, cam, t) ==
    [c \in DOMAIN cm |->
        IF c = cam
        THEN [i \in DOMAIN cm[c] \cup {t.trackId} |->
                 IF i = t.trackId THEN t ELSE cm[c][i]]
        ELSE cm[c]]

RemovalLeavesAlone ==
    UNCHANGED <<camMap, trackIds, intervalTree, nextTrackId, sortedTracks,
                selectedTrackId, editingTrack, mergeList>>

\* C17: a removeTrack that asks for confirmation changes nothing in the
\* store before the answer is known, and a negative answer leaves store,
\* selection, editing flag and merge candidates exactly as they are when it
\* arrives, whatever other actions ran while the prompt was open.
C17_RejectedRemovalChangesNothing ==
    [][/\ \A ids \in IdLists(camMap), cam \in Cameras \cup {NoCamera} :
             (trackSettings.promptUser /\ RemoveTrack(ids, FALSE, cam))
                 => (RemovalLeavesAlone /\ pendingRemove'.open)
       /\ PromptAnswer(FALSE)
             => (RemovalLeavesAlone /\ ~pendingRemove'.open)]_vars

\* The removal of a selected, staged track was rejected, and the track is
\* still stored, selected and staged.
C17_Witness ==
    /\ last.op = "promptRejected"
    /\ ~pendingRemove.open
    /\ selectedTrackId # Null
    /\ HasTrack(camMap, selectedTrackId, selectedCamera)
    /\ mergeList = <<selectedTrackId>>

\* The selection is a track of the current camera, so that a rectangle
\* drawn now is written and the post-add-advance logic runs.
SelectedOnCamera ==
    selectedTrackId # Null /\ HasTrack(camMap, selectedTrackId, selectedCamera)

AutoAdvancing ==
    creating /\ trackSettings.mode = "Track" /\ trackSettings.autoAdvanceFrame

ContinuousDetections ==
    creating /\ trackSettings.mode = "Detection" /\ trackSettings.continuous

\* C20: the post-add-advance logic, run after a rectangle is written. While
\* creating in Track mode with auto-advance the playback moves on by exactly
\* one frame and creating stays true; while creating in Detection mode with
\* continuous creation exactly one more detection is created and selected
\* and creating stays true; in every other case, creating false included,
\* the frame stays, no track is created and creating is false afterwards.
C20_PostAddAdvance ==
    [][(SelectedOnCamera /\ UpdateRectBounds(frame)) =>
          IF AutoAdvancing
          THEN /\ frame' = frame + 1
               /\ creating'
               /\ nextTrackId' = nextTrackId
               /\ trackIds' = trackIds
          ELSE IF ContinuousDetections
          THEN /\ frame' = frame
               /\ creating'
               /\ nextTrackId' = nextTrackId + 1
               /\ TrackCount(camMap') = TrackCount(camMap) + 1
               /\ HasTrack(camMap', nextTrackId, selectedCamera)
               /\ selectedTrackId' = nextTrackId
          ELSE /\ frame' = frame
               /\ ~creating'
               /\ nextTrackId' = nextTrackId
               /\ trackIds' = trackIds]_vars

\* A rectangle drawn on a new detection has created and selected the next
\* detection, still in creating mode.
C20_Witness ==
    /\ last.op = "updateRectBounds"
    /\ trackSettings.mode = "Detection"
    /\ trackSettings.continuous
    /\ creating
    /\ selectedTrackId = 1
    /\ camMap[selectedCamera][0].features = {0}
    /\ camMap[selectedCamera][1].features = {}

\* ==================================================== the geometry claims
RecipeIndexes == 1..Len(RecipeNames)

\* The last step was a geometry update on a track of the camera in which
\* two recipes wrote the same key, or more than one set newType, or more
\* than one set newSelectedKey.
ConflictingUpdate ==
    /\ SelectedOnCamera
    /\ last'.op = "updateGeoJSON"
    /\ \/ asked'.sameKey
       \/ Cardinality(asked'.newType) > 1
       \/ Cardinality(asked'.newSelectedKey) > 1

\* C15: a geometry update in which two recipes write the same key, or more
\* than one sets newType, or more than one sets newSelectedKey, fails with a
\* Conflict error and writes nothing: the tracks, the editing type, the
\* selected key, the creating flag and the recipes' active flags are as
\* before.
C15_ConflictAbortsTheUpdate ==
    [][ConflictingUpdate =>
          /\ error'.kind = "Conflict"
          /\ UNCHANGED <<camMap, annotationModes, selectedKey, creating,
                         recipes>>]_vars

\* The last step was a geometry update that went through and in which
\* exactly one recipe returned newType.
TypeSwitched ==
    /\ SelectedOnCamera
    /\ last'.op = "updateGeoJSON"
    /\ error' = NoError
    /\ Cardinality(asked'.newType) = 1

Supplied == CHOOSE p \in asked'.newType : TRUE

\* C16 as the spec states it: the editing type becomes the newType and
\* every recipe is deactivated but the one that supplied it, whose active
\* flag stays as it was.
C16_AsStated ==
    [][TypeSwitched =>
          /\ annotationModes'.editing = Supplied[2]
          /\ \A i \in RecipeIndexes :
                IF i = Supplied[1]
                THEN recipes'[RecipeNames[i]] = recipes[RecipeNames[i]]
                ELSE ~recipes'[RecipeNames[i]].active]_vars

\* C16: when exactly one recipe returned newType and the update went
\* through, the editing type is that type and every recipe is deactivated,
\* the one that supplied the type included.
C16_TypeSwitchDeactivatesAll ==
    [][TypeSwitched =>
          /\ annotationModes'.editing = Supplied[2]
          /\ \A i \in RecipeIndexes : ~recipes'[RecipeNames[i]].active]_vars

\* The recipe "line" alone returned newType LineString: the editing type
\* is LineString and no recipe is active.
C16_Witness ==
    /\ last.op = "updateGeoJSON"
    /\ error = NoError
    /\ asked.newType = {<<2, "LineString">>}
    /\ annotationModes.editing = "LineString"
    /\ \A i \in RecipeIndexes : ~recipes[RecipeNames[i]].active

\* ================================================ the editing mode claim
SelectedTrack == camMap[selectedCamera][selectedTrackId]

\* On the frame shown the selected track has a shape of the type being
\* edited; for the type rectangle the shape is the bounds.
HasShapeOfEditingType ==
    IF annotationModes.editing = "rectangle"
    THEN frame \in SelectedTrack.bounds
    ELSE \E k \in Keys :
            <<frame, k, annotationModes.editing>> \in SelectedTrack.shapes

\* Creating or Editing, by what the selected track holds on the frame.
CreatingOrEditing ==
    IF \/ frame \notin SelectedTrack.features
       \/ frame \notin SelectedTrack.bounds
       \/ ~HasShapeOfEditingType
    THEN "Creating"
    ELSE "Editing"

\* C19 as the spec states it: the mode is disabled exactly when there is no
\* selection or no track of the selection on the current camera, and
\* otherwise Creating or Editing by the feature on the frame.
C19_AsStated ==
    editingDetails(State) =
        IF ~SelectedOnCamera THEN "disabled" ELSE CreatingOrEditing

\* C19: the effective editing mode is a function of the session state: it
\* is disabled exactly when the editing flag is off, or nothing is selected,
\* or the selection has no track on the current camera; otherwise it is
\* Creating when the track has no feature, no bounds or no shape of the
\* editing type on the frame shown, and Editing when it has all three.
C19_EditingModeProjection ==
    editingDetails(State) =
        IF ~editingTrack \/ ~SelectedOnCamera THEN "disabled"
        ELSE CreatingOrEditing

\* A polygon is being edited: the selected track has bounds and a Polygon
\* on the frame shown.
C19_Witness ==
    /\ editingDetails(State) = "Editing"
    /\ annotationModes.editing = "Polygon"
    /\ <<frame, "", "Polygon">> \in SelectedTrack.shapes

\* ============================================= the interrupt and the write
\* The last step was a geometry update on a track of the camera that was
\* not aborted.
UpdateWentThrough ==
    /\ SelectedOnCamera
    /\ last'.op = "updateGeoJSON"
    /\ error' = NoError

\* No recipe set newType or newSelectedKey in the update.
NoSwitchAsked == asked'.newType = {} /\ asked'.newSelectedKey = {}

\* The update counts as a completed annotation.
CompletedAnnotation ==
    /\ asked'.changed
    /\ asked'.eventType = "editing" \/ ~asked'.unfinished

\* C21: in a geometry update the caller's preventInterrupt is invoked
\* exactly when something changed, no recipe set newType or newSelectedKey
\* and a callback was supplied, and then the editing type, the selected key
\* and the recipes' active flags stay as they were; the feature is written
\* to the track if and only if something changed; the post-add-advance
\* logic runs only after such a write, when the event type is 'editing' or
\* no recipe reported done == false.
C21_InterruptOrWrite ==
    [][UpdateWentThrough =>
          /\ prevented' <=> /\ asked'.changed
                            /\ NoSwitchAsked
                            /\ asked'.preventInterrupt
          /\ prevented' => UNCHANGED <<annotationModes, selectedKey, recipes>>
          /\ asked'.changed =>
                frame \in camMap'[selectedCamera][selectedTrackId].features
          /\ ~asked'.changed => UNCHANGED <<camMap, trackIds, intervalTree>>
          /\ ~CompletedAnnotation =>
                UNCHANGED <<creating, frame, nextTrackId>>
          /\ CompletedAnnotation =>
                (creating' <=> (AutoAdvancing \/ ContinuousDetections))]_vars

\* ================================================ the interpolation claim
\* What updateRectBounds leaves alone when it finds no track to write.
RectBoundsLeavesAlone ==
    /\ UNCHANGED <<camMap, trackIds, intervalTree, nextTrackId, sortedTracks,
                   didCall, called>>
    /\ UNCHANGED <<selectedTrackId, selectedCamera, editingTrack, frame,
                   creating, mergeList, trackSettings, annotationModes,
                   selectedKey>>
    /\ written' = NoFeature
    /\ error' = NoError

\* C22: updateRectBounds writes a keyframe feature at the frame whose
\* interpolate flag is false whenever the new-track mode is Detection,
\* otherwise the configured default while creating is true and what the
\* track's canInterpolate(frame) answered while creating is false; with no
\* selection, or no track of the selection on the current camera, it
\* changes nothing.
C22_InterpolationPolicy ==
    [][UpdateRectBounds(frame) =>
          IF SelectedOnCamera
          THEN /\ frame \in camMap'[selectedCamera][selectedTrackId].features
               /\ written'.frame = frame
               /\ written'.keyframe
               /\ written'.interpolate =
                     IF trackSettings.mode = "Detection" THEN FALSE
                     ELSE IF creating THEN trackSettings.interpolate
                     ELSE written'.canInterpolate
          ELSE RectBoundsLeavesAlone]_vars

\* A rectangle was drawn on a detection selected again after its creation:
\* the track answered that it can interpolate and the feature does not.
C22_Witness ==
    /\ last.op = "updateRectBounds"
    /\ trackSettings.mode = "Detection"
    /\ trackSettings.interpolate
    /\ written.frame = frame
    /\ written.canInterpolate
    /\ ~written.interpolate

\* ================================================== the selection claim
\* C23: in every reachable state the selection is null or the id of a track
\* that at least one camera holds; in particular the selection never names
\* a track that a removeTrack call has just removed.
C23_SelectionNamesATrack ==
    selectedTrackId = Null \/ getTrackAll(camMap, selectedTrackId) # {}

\* ============================================= the merge candidates claim
\* The step was a selection made while the merge was pending, and the id
\* it selected was staged already. (With a merge pending trackSelect,
\* trackSeek and trackEdit end by selecting the id they were given.)
SelectedAStagedId ==
    /\ MergePending
    /\ last'.op \in {"trackSelect", "trackSeek", "trackEdit"}
    /\ selectedTrackId' \in Candidates

\* C24: the merge candidates are an ordered set. They never hold an id
\* twice; when merge mode is entered they are exactly the track selected
\* then, and that track stays the first candidate for as long as it is
\* staged and merge mode lasts; selecting an id that is already staged
\* leaves the candidates as they are.
C24_CandidatesAreAnOrderedSet ==
    [][/\ \A i, j \in 1..Len(mergeList') :
             i # j => mergeList'[i] # mergeList'[j]
       /\ (~MergePending /\ MergePending') =>
             (selectedTrackId # Null /\ mergeList' = <<selectedTrackId>>)
       /\ (MergePending /\ \E i \in 1..Len(mergeList') :
                               mergeList'[i] = mergeList[1]) =>
             mergeList'[1] = mergeList[1]
       /\ SelectedAStagedId => mergeList' = mergeList]_vars

\* With two candidates staged the first one was selected again: it is the
\* selection and the candidates are the same two, in the same order.
C24_Witness ==
    /\ last.op = "trackSelect"
    /\ Len(mergeList) = 2
    /\ selectedTrackId = mergeList[1]
    /\ mergeList[1] # mergeList[2]

\* ================================================ the failed commit claim
\* C25: commitMerge() with 2 or more candidates, at least one of which is
\* not a track of the selected camera, fails with NotFound for such a
\* candidate before anything is changed: no track is merged or removed and
\* the candidates, the selection and the editing flag are as before.
C25_FailedCommitChangesNothing ==
    [][(CommitMerge /\ Len(mergeList) >= 2 /\ ~CandidatesOnCamera) =>
          /\ error'.kind = "NotFound"
          /\ error'.cam = selectedCamera
          /\ error'.id \in Candidates
          /\ ~HasTrack(camMap, error'.id, selectedCamera)
          /\ UNCHANGED <<camMap, trackIds, intervalTree, nextTrackId,
                         sortedTracks, mergeList, selectedTrackId,
                         editingTrack>>]_vars

\* A commit failed with two candidates staged, one of them a track of the
\* other camera only; both are still staged and stored.
C25_Witness ==
    /\ last.op = "commitMerge"
    /\ error.kind = "NotFound"
    /\ Len(mergeList) = 2
    /\ \A id \in Candidates : getTrackAll(camMap, id) # {}
    /\ HasTrack(camMap, mergeList[1], selectedCamera)

====
